---- MODULE Spec2Model ----
(***************************************************************************)
(* A model of the woloo-backend HTTP service (src/server.js) and of its    *)
(* seeding script (src/seed.js).  The store holds two collections, lesson  *)
(* and order; each route handler is one action.  JSON values carry their   *)
(* JavaScript type, strings are sequences of one-character strings, and    *)
(* the conversions the handlers rely on (truthiness, String(), Number(),   *)
(* RegExp escaping and matching, ObjectId parsing) are computed.           *)
(*                                                                         *)
(* Line numbers refer to the later of the two copies of the server held in *)
(* src/server.js (lines 184-418); the earlier copy (lines 1-180) has the   *)
(* same handlers except that its PUT /lessons/:id has no string-id         *)
(* fallback.                                                               *)
(*                                                                         *)
(* The MongoDB driver is not part of the repository.  It is modelled by    *)
(* the contract the handlers are written against: insertOne assigns a      *)
(* fresh ObjectId, findOneAndUpdate is one atomic store operation whose    *)
(* result carries the post-update document in .value (null when nothing    *)
(* matched), ObjectId parsing throws on a malformed string.                *)
(***************************************************************************)
EXTENDS Integers, Sequences, FiniteSets

VARIABLES
    lessons,    \* the lesson collection, in store-native order
    orders,     \* the order collection, in store-native order
    nextOid,    \* the counter of the server's ObjectId generator
    seedRuns,   \* how many times the seeding script has run
    req,        \* the request served last
    resp,       \* the response to it
    tasks       \* PUT /lessons/:id requests in flight (SpecConc only)

vars == <<lessons, orders, nextOid, seedRuns, req, resp, tasks>>

----------------------------------------------------------------------------
(* JSON / JavaScript values *)

Undefined == [t |-> "undefined"]
Null == [t |-> "null"]
Bool(b) == [t |-> "boolean", b |-> b]
\* the number n
Num(n) == [t |-> "number", n |-> n, half |-> FALSE]
\* the number n + 0.5
NumHalf(n) == [t |-> "number", n |-> n, half |-> TRUE]
\* a decimal with fraction digits other than .0 and .5 (only Number() makes one)
NumFrac(n, digits) == [t |-> "number", n |-> n, frac |-> digits]
NaN == [t |-> "number", nan |-> TRUE]
Str(s) == [t |-> "string", s |-> s]
Arr(a) == [t |-> "array", a |-> a]
Obj(o) == [t |-> "object", o |-> o]
ObjectId(h) == [t |-> "objectid", h |-> h]
\* the outcome of an expression that throws
Throw == [t |-> "throw"]

Digits == <<"0", "1", "2", "3", "4", "5", "6", "7", "8", "9">>
HexDigits == Digits \o <<"a", "b", "c", "d", "e", "f">>
Lower ==
    <<"a", "b", "c", "d", "e", "f", "g", "h", "i", "j", "k", "l", "m",
      "n", "o", "p", "q", "r", "s", "t", "u", "v", "w", "x", "y", "z">>
Upper ==
    <<"A", "B", "C", "D", "E", "F", "G", "H", "I", "J", "K", "L", "M",
      "N", "O", "P", "Q", "R", "S", "T", "U", "V", "W", "X", "Y", "Z">>

Range(s) == {s[i] : i \in DOMAIN s}
IndexOf(s, c) == CHOOSE i \in DOMAIN s : s[i] = c

DigitChars == Range(Digits)
UpperChars == Range(Upper)
Letters == Range(Lower) \cup UpperChars
\* \s of the handlers' patterns (the members that occur in the inputs)
WhiteSpace == {" ", "\t", "\n"}
HexChars == Range(HexDigits) \cup {"A", "B", "C", "D", "E", "F"}

ToLowerChar(c) == IF c \in UpperChars THEN Lower[IndexOf(Upper, c)] ELSE c
ToLowerCase(s) == [i \in DOMAIN s |-> ToLowerChar(s[i])]

RECURSIVE NatToDigits(_)
NatToDigits(n) ==
    IF n < 10 THEN <<Digits[n + 1]>>
    ELSE NatToDigits(n \div 10) \o <<Digits[(n % 10) + 1]>>

RECURSIVE DigitsToNat(_)
DigitsToNat(s) ==
    IF s = <<>> THEN 0
    ELSE 10 * DigitsToNat(SubSeq(s, 1, Len(s) - 1)) + (IndexOf(Digits, s[Len(s)]) - 1)

\* JavaScript truthiness: the operand of ! in the handlers
Truthy(v) ==
    CASE v.t \in {"undefined", "null"} -> FALSE
      [] v.t = "boolean" -> v.b
      [] v.t = "number" ->
            IF "nan" \in DOMAIN v THEN FALSE
            ELSE IF "frac" \in DOMAIN v THEN TRUE
            ELSE ~(v.n = 0 /\ ~v.half)
      [] v.t = "string" -> v.s # <<>>
      [] OTHER -> TRUE

\* String(v): what RegExp.prototype.test applies to its argument
RECURSIVE ToString(_)
RECURSIVE JoinComma(_)
JoinComma(a) ==
    IF a = <<>> THEN <<>>
    ELSE LET h == IF Head(a).t \in {"undefined", "null"} THEN <<>> ELSE ToString(Head(a))
         IN  IF Len(a) = 1 THEN h ELSE h \o <<",">> \o JoinComma(Tail(a))
ToString(v) ==
    CASE v.t = "string" -> v.s
      [] v.t = "undefined" -> <<"u", "n", "d", "e", "f", "i", "n", "e", "d">>
      [] v.t = "null" -> <<"n", "u", "l", "l">>
      [] v.t = "boolean" ->
            IF v.b THEN <<"t", "r", "u", "e">> ELSE <<"f", "a", "l", "s", "e">>
      [] v.t = "number" ->
            IF "nan" \in DOMAIN v THEN <<"N", "a", "N">>
            ELSE LET int == IF v.n < 0 THEN <<"-">> \o NatToDigits(-v.n)
                            ELSE NatToDigits(v.n)
                 IN  IF "frac" \in DOMAIN v THEN int \o <<".">> \o v.frac
                     ELSE IF v.half THEN int \o <<".", "5">>
                     ELSE int
      [] v.t = "array" -> JoinComma(v.a)
      [] v.t = "objectid" -> v.h
      [] OTHER -> <<"[", "o", "b", "j", "e", "c", "t", " ", "O", "b", "j", "e", "c", "t", "]">>

\* v.k for a property k that is no built-in: reading it off null or undefined throws
Get(v, k) ==
    IF v.t \in {"undefined", "null"} THEN Throw
    ELSE IF v.t = "object" /\ k \in DOMAIN v.o THEN v.o[k]
    ELSE Undefined

\* Number.isInteger
IsInteger(v) == v.t = "number" /\ DOMAIN v = {"t", "n", "half"} /\ ~v.half

----------------------------------------------------------------------------
(* ObjectId *)

Zeros(n) == [i \in 1..n |-> "0"]

HexByte(n) == <<HexDigits[((n \div 16) % 16) + 1], HexDigits[(n % 16) + 1]>>

\* The hex form of the n-th ObjectId generated in process p.  An ObjectId is
\* a timestamp, a per-process random value and a counter: ids of one process
\* differ in the counter, ids of two processes in the process value.  The
\* server is process 0, the k-th run of the seeding script is process k.
OidHex(p, n) == <<"6", "5", "a", "f">> \o Zeros(16) \o HexByte(p) \o HexByte(n)

IsHexString24(s) == Len(s) = 24 /\ \A i \in DOMAIN s : s[i] \in HexChars

\* ObjectId.createFromHexString(v): throws unless v is 24 hex characters
CreateFromHexString(v) ==
    IF v.t = "string" /\ IsHexString24(v.s) THEN ObjectId(ToLowerCase(v.s)) ELSE Throw

\* new ObjectId(id) of a route parameter (always a string)
NewObjectId(id) ==
    IF IsHexString24(id) THEN ObjectId(ToLowerCase(id)) ELSE Throw

\* Number.isNaN
NumberIsNaN(v) == v.t = "number" /\ "nan" \in DOMAIN v

----------------------------------------------------------------------------
(* Responses *)

Response(status, body) == [status |-> status, body |-> body]
Error(msg) == [error |-> msg]
NoRequest == [op |-> "none"]
NoResponse == Response(0, Error(""))

----------------------------------------------------------------------------
(* POST /orders: validation *)

\* the class [A-Za-z\s]
NameChars == Letters \cup WhiteSpace

\* /^[A-Za-z\s]+$/.test(v)
NameRegexTest(v) ==
    LET s == ToString(v)
    IN  s # <<>> /\ \A i \in DOMAIN s : s[i] \in NameChars

\* /^\d+$/.test(v)
PhoneRegexTest(v) ==
    LET s == ToString(v)
    IN  s # <<>> /\ \A i \in DOMAIN s : s[i] \in DigitChars

NameOk(name) == Truthy(name) /\ NameRegexTest(name)
PhoneOk(phone) == Truthy(phone) /\ PhoneRegexTest(phone)
ItemsOk(items) == items.t = "array" /\ Len(items.a) # 0

\* A faulty QuantityOk: the test for an integer left out
QuantityOkAnyNumber(q) == q.t = "number" /\ q.n > 0

\* it.quantity passes: Number.isInteger(it.quantity) && it.quantity > 0
QuantityOk(q) == IsInteger(q) /\ q.n > 0

\* The body of the loop over items for one item: "ok", the error of the
\* 400 it returns, or "throw" when evaluating a condition throws.
CheckItem(it) ==
    LET lessonId == Get(it, "lessonId")
    IN  IF lessonId = Throw THEN "throw"
        ELSE IF ~Truthy(lessonId) THEN "Invalid lessonId"
        ELSE LET oid == CreateFromHexString(lessonId)
             IN  IF oid = Throw THEN "throw"
                 ELSE IF NumberIsNaN(oid) THEN "Invalid lessonId"
                 ELSE IF ~QuantityOk(Get(it, "quantity")) THEN "Invalid quantity"
                 ELSE "ok"

\* for (const it of items) { ... }: the first item that does not pass decides
RECURSIVE CheckItems(_)
CheckItems(a) ==
    IF a = <<>> THEN "ok"
    ELSE LET r == CheckItem(Head(a))
         IN  IF r # "ok" THEN r ELSE CheckItems(Tail(a))

\* The handler up to the insert: "ok", the 400's error, or "throw"
ValidateOrder(body) ==
    IF ~NameOk(body.name) THEN "Invalid name"
    ELSE IF ~PhoneOk(body.phone) THEN "Invalid phone"
    ELSE IF ~ItemsOk(body.items) THEN "No items in order"
    ELSE CheckItems(body.items.a)

\* A faulty InsertOne: a document equal to a stored one in every field is
\* not inserted again
InsertOneOnce(coll, doc, oid) ==
    IF \E i \in DOMAIN coll : \A k \in DOMAIN doc : coll[i][k] = doc[k]
    THEN coll
    ELSE Append(coll, [k \in DOMAIN doc \cup {"_id"} |->
                         IF k = "_id" THEN ObjectId(OidHex(0, oid)) ELSE doc[k]])

\* orders.insertOne(doc): the driver gives the document a fresh _id
InsertOne(coll, doc, oid) ==
    Append(coll, [k \in DOMAIN doc \cup {"_id"} |->
                     IF k = "_id" THEN ObjectId(OidHex(0, oid)) ELSE doc[k]])

Date(ms) == [t |-> "date", ms |-> ms]

\* A faulty PostOrders: an accepted order takes the quantity of its first
\* item off the spaces of the lesson the item names
PostOrdersDecrement(ls, os, oid, body, now) ==
    LET v == ValidateOrder(body)
    IN  IF v = "throw"
        THEN [lessons |-> ls, orders |-> os, nextOid |-> oid,
              resp |-> Response(500, Error("Failed to create order"))]
        ELSE IF v # "ok"
        THEN [lessons |-> ls, orders |-> os, nextOid |-> oid,
              resp |-> Response(400, Error(v))]
        ELSE LET orderDoc == [name |-> body.name, phone |-> body.phone,
                              items |-> body.items, createdAt |-> Date(now)]
                 coll == InsertOne(os, orderDoc, oid)
                 first == body.items.a[1].o
                 taken(doc) ==
                     IF doc["_id"] = CreateFromHexString(first.lessonId) /\ IsInteger(doc.spaces)
                     THEN [doc EXCEPT !["spaces"] = Num(doc.spaces.n - first.quantity.n)]
                     ELSE doc
             IN  [lessons |-> [i \in DOMAIN ls |-> taken(ls[i])], orders |-> coll,
                  nextOid |-> oid + 1, resp |-> Response(201, coll[Len(coll)])]

\* The handler of POST /orders on a store (ls, os, oid), at time now:
\* the store it leaves and the response it sends.
PostOrders(ls, os, oid, body, now) ==
    LET v == ValidateOrder(body)
    IN  IF v = "throw"
        THEN [lessons |-> ls, orders |-> os, nextOid |-> oid,
              resp |-> Response(500, Error("Failed to create order"))]
        ELSE IF v # "ok"
        THEN [lessons |-> ls, orders |-> os, nextOid |-> oid,
              resp |-> Response(400, Error(v))]
        ELSE LET orderDoc == [name |-> body.name, phone |-> body.phone,
                              items |-> body.items, createdAt |-> Date(now)]
                 coll == InsertOne(os, orderDoc, oid)
             IN  [lessons |-> ls, orders |-> coll, nextOid |-> oid + 1,
                  resp |-> Response(201, coll[Len(coll)])]

----------------------------------------------------------------------------
(* PUT /lessons/:id *)

allowed == {"subject", "location", "price", "spaces", "image"}

\* A faulty AllowedSet: every field of the body is set
AllowedSetEverything(body) == body

\* the loop over allowed: the body's own allow-listed fields
AllowedSet(body) == [k \in DOMAIN body \cap allowed |-> body[k]]

\* A faulty ApplySet: the document is replaced by the field set
ApplySetReplace(doc, set) ==
    [k \in DOMAIN set \cup {"_id"} |-> IF k \in DOMAIN set THEN set[k] ELSE doc[k]]

\* { $set: set } applied to one document
ApplySet(doc, set) ==
    [k \in DOMAIN doc \cup DOMAIN set |-> IF k \in DOMAIN set THEN set[k] ELSE doc[k]]

Matching(coll, id) == {i \in DOMAIN coll : coll[i]["_id"] = id}

\* A faulty FindOneAndUpdate: the document is updated but the result
\* carries no value
FindOneAndUpdateNoValue(coll, id, set) ==
    LET m == Matching(coll, id)
    IN  IF m = {} THEN [coll |-> coll, value |-> Null]
        ELSE LET i == CHOOSE j \in m : \A k \in m : j <= k
             IN  [coll |-> [coll EXCEPT ![i] = ApplySet(coll[i], set)], value |-> Null]

\* lessons.findOneAndUpdate({ _id: id }, { $set: set }, { returnDocument: 'after' }):
\* one atomic store operation; the collection it leaves and result.value
FindOneAndUpdate(coll, id, set) ==
    LET m == Matching(coll, id)
    IN  IF m = {} THEN [coll |-> coll, value |-> Null]
        ELSE LET i == CHOOSE j \in m : \A k \in m : j <= k
                 doc == ApplySet(coll[i], set)
             IN  [coll |-> [coll EXCEPT ![i] = doc], value |-> doc]

\* The handler up to its first store call: the 400 it answers with, or
\* Null when it goes on to the store
PutCheck(id, body) ==
    IF NewObjectId(id) = Throw THEN Response(400, Error("Invalid id"))
    ELSE IF DOMAIN AllowedSet(body) = {} THEN Response(400, Error("No valid fields to update"))
    ELSE Null

\* the first store call: matching _id against the ObjectId
UpdateByObjectId(ls, id, body) == FindOneAndUpdate(ls, NewObjectId(id), AllowedSet(body))

\* the fallback store call: matching _id against the string
UpdateByString(ls, id, body) == FindOneAndUpdate(ls, Str(id), AllowedSet(body))

\* what the handler answers after a store call that matched, or after the fallback
PutAnswer(result) ==
    IF result.value # Null THEN Response(200, result.value)
    ELSE Response(404, Error("Lesson not found"))

\* The handler of PUT /lessons/:id run to its end on a lesson collection:
\* the collection it leaves and the response it sends.
PutLessons(ls, id, body) ==
    IF PutCheck(id, body) # Null
    THEN [lessons |-> ls, resp |-> PutCheck(id, body)]
    ELSE LET r1 == UpdateByObjectId(ls, id, body)
         IN  IF r1.value # Null
             THEN [lessons |-> r1.coll, resp |-> PutAnswer(r1)]
             ELSE LET r2 == UpdateByString(r1.coll, id, body)
                  IN  [lessons |-> r2.coll, resp |-> PutAnswer(r2)]

----------------------------------------------------------------------------
(* GET /lessons and GET /search *)

RECURSIVE TrimStart(_)
TrimStart(s) ==
    IF s # <<>> /\ Head(s) \in WhiteSpace THEN TrimStart(Tail(s)) ELSE s

RECURSIVE TrimEnd(_)
TrimEnd(s) ==
    IF s # <<>> /\ s[Len(s)] \in WhiteSpace THEN TrimEnd(SubSeq(s, 1, Len(s) - 1)) ELSE s

\* String.prototype.trim
Trim(s) == TrimEnd(TrimStart(s))

\* the characters of the class [.*+?^${}()|[\]\\]
RegExpSpecials == {".", "*", "+", "?", "^", "$", "{", "}", "(", ")", "|", "[", "]", "\\"}

\* A faulty EscapeRegExp: nothing is escaped
EscapeNothing(s) == s

\* q.replace(/[.*+?^${}()|[\]\\]/g, '\\$&')
RECURSIVE EscapeRegExp(_)
EscapeRegExp(s) ==
    IF s = <<>> THEN <<>>
    ELSE (IF Head(s) \in RegExpSpecials THEN <<"\\", Head(s)>> ELSE <<Head(s)>>)
         \o EscapeRegExp(Tail(s))

\* new RegExp(source, 'i'), for the pattern syntax the queries can produce:
\* an escaped character and an ordinary character match themselves, a bare
\* dot matches any character but a line break.
RECURSIVE NewRegExp(_)
NewRegExp(source) ==
    IF source = <<>> THEN <<>>
    ELSE IF Head(source) = "\\" /\ Len(source) >= 2
    THEN <<[lit |-> source[2]]>> \o NewRegExp(SubSeq(source, 3, Len(source)))
    ELSE IF Head(source) = "."
    THEN <<[any |-> TRUE]>> \o NewRegExp(Tail(source))
    ELSE <<[lit |-> Head(source)]>> \o NewRegExp(Tail(source))

AtomMatches(atom, c) ==
    IF "any" \in DOMAIN atom THEN c # "\n"
    ELSE ToLowerChar(atom.lit) = ToLowerChar(c)

\* { field: { $regex: regex } } on one field: only a string can match, and the
\* pattern may match anywhere in it
RegexClause(regex, v) ==
    /\ v.t = "string"
    /\ \E start \in 0..(Len(v.s) - Len(regex)) :
          \A j \in 1..Len(regex) : AtomMatches(regex[j], v.s[start + j])

\* the value of a decimal literal: digits with at most one dot among them
DecimalLiteral(s, dots) ==
    IF \/ \E i \in DOMAIN s : s[i] \notin DigitChars /\ s[i] # "."
       \/ Cardinality(dots) > 1
       \/ Cardinality(dots) = Len(s)
    THEN NaN
    ELSE LET dot == IF dots = {} THEN Len(s) + 1 ELSE CHOOSE i \in dots : TRUE
             int == DigitsToNat(SubSeq(s, 1, dot - 1))
             fraction == SubSeq(s, dot + 1, Len(s))
             last == {i \in DOMAIN fraction : fraction[i] # "0"}
             digits == IF last = {} THEN <<>>
                       ELSE SubSeq(fraction, 1, CHOOSE i \in last : \A k \in last : k <= i)
         IN  IF digits = <<>> THEN Num(int)
             ELSE IF digits = <<"5">> THEN NumHalf(int)
             ELSE NumFrac(int, digits)

\* the value of the text once its surrounding whitespace is gone
TrimmedToNumber(s) ==
    IF s = <<>> THEN Num(0) ELSE DecimalLiteral(s, {i \in DOMAIN s : s[i] = "."})

\* Number(s) of a string, for decimal literals
StringToNumber(str) == TrimmedToNumber(Trim(str))

\* { field: maybeNum }: equality of value and type
EqualsClause(num, v) == v = num

\* the filter { $or: [ { subject: { $regex: regex } }, { location: { $regex:
\* regex } }, ...(isNum ? [ { price: maybeNum }, { spaces: maybeNum } ] : []) ] }
OrFilter(regex, maybeNum, doc) ==
    \/ RegexClause(regex, doc.subject)
    \/ RegexClause(regex, doc.location)
    \/ ~NumberIsNaN(maybeNum) /\ EqualsClause(maybeNum, doc.price)
    \/ ~NumberIsNaN(maybeNum) /\ EqualsClause(maybeNum, doc.spaces)

\* the $or filter GET /search builds for a non-empty q
SearchFilter(q, doc) == OrFilter(NewRegExp(EscapeRegExp(q)), StringToNumber(q), doc)

\* const q = (req.query.q || '').toString().trim()
QueryText(param) == Trim(ToString(IF Truthy(param) THEN param ELSE Str(<<>>)))

\* the documents GET /search responds with, q being the text of the query:
\* lessons.find(filter).toArray() keeps the documents the filter matches,
\* in store order
SearchText(ls, q) ==
    LET Match(doc) == SearchFilter(q, doc)
        All(doc) == TRUE
    IN  IF q = <<>> THEN SelectSeq(ls, All) ELSE SelectSeq(ls, Match)

\* The handler of GET /search: the documents it responds with
GetSearch(ls, param) == SearchText(ls, QueryText(param))

\* The handler of GET /lessons: the documents it responds with
GetLessons(ls) ==
    LET All(doc) == TRUE
    IN  SelectSeq(ls, All)

----------------------------------------------------------------------------
(* seed.js *)

\* the documents run() inserts
docs ==
    << [subject |-> Str(<<"M", "a", "t", "h">>),
        location |-> Str(<<"H", "e", "n", "d", "o", "n">>),
        price |-> Num(100), spaces |-> Num(5), image |-> Null],
       [subject |-> Str(<<"S", "c", "i", "e", "n", "c", "e">>),
        location |-> Str(<<"C", "o", "l", "i", "n", "d", "a", "l", "e">>),
        price |-> Num(90), spaces |-> Num(5), image |-> Null],
       [subject |-> Str(<<"E", "n", "g", "l", "i", "s", "h">>),
        location |-> Str(<<"B", "r", "e", "n", "t", " ", "C", "r", "o", "s", "s">>),
        price |-> Num(80), spaces |-> Num(5), image |-> Null],
       [subject |-> Str(<<"C", "o", "d", "i", "n", "g">>),
        location |-> Str(<<"G", "o", "l", "d", "e", "r", "s", " ", "G", "r", "e", "e", "n">>),
        price |-> Num(95), spaces |-> Num(5), image |-> Null],
       [subject |-> Str(<<"A", "r", "t">>),
        location |-> Str(<<"C", "a", "m", "d", "e", "n">>),
        price |-> Num(70), spaces |-> Num(5), image |-> Null],
       [subject |-> Str(<<"M", "u", "s", "i", "c">>),
        location |-> Str(<<"B", "a", "r", "n", "e", "t">>),
        price |-> Num(85), spaces |-> Num(5), image |-> Null],
       [subject |-> Str(<<"D", "r", "a", "m", "a">>),
        location |-> Str(<<"E", "d", "g", "w", "a", "r", "e">>),
        price |-> Num(75), spaces |-> Num(5), image |-> Null],
       [subject |-> Str(<<"R", "o", "b", "o", "t", "i", "c", "s">>),
        location |-> Str(<<"W", "e", "m", "b", "l", "e", "y">>),
        price |-> Num(110), spaces |-> Num(5), image |-> Null],
       [subject |-> Str(<<"C", "h", "e", "s", "s">>),
        location |-> Str(<<"M", "i", "l", "l", " ", "H", "i", "l", "l">>),
        price |-> Num(65), spaces |-> Num(5), image |-> Null],
       [subject |-> Str(<<"F", "r", "e", "n", "c", "h">>),
        location |-> Str(<<"F", "i", "n", "c", "h", "l", "e", "y">>),
        price |-> Num(88), spaces |-> Num(5), image |-> Null] >>

\* how many of the documents, from the first, the model seeds
SeedSize == 2

\* lessons.insertMany(docs) in the k-th run: every document gets a fresh _id
InsertMany(k) ==
    [i \in 1..SeedSize |->
        [f \in DOMAIN docs[i] \cup {"_id"} |->
            IF f = "_id" THEN ObjectId(OidHex(k, i)) ELSE docs[i][f]]]

\* lessons.deleteMany({})
DeleteMany(coll) == <<>>

\* run() of the k-th run of the script on a lesson collection
Run(coll, k) == DeleteMany(coll) \o InsertMany(k)

----------------------------------------------------------------------------
(* Bounds and inputs *)

\* how many times the seeding script may run
MaxSeedRuns == 2
\* how many orders the store may come to hold
MaxOrders == 2
\* the length of the longest query GET /search is tried with exhaustively
MaxQueryLen == 3

\* the instants new Date() may return
Timestamps == {0, 1}

JohnDoe == <<"J", "o", "h", "n", " ", "D", "o", "e">>
John123 == <<"J", "o", "h", "n", "1", "2", "3">>

NameInputs == {Undefined, Str(JohnDoe), Str(John123), Bool(TRUE)}
PhoneInputs == {Undefined, Str(<<"a", "b", "c">>), Str(<<"1", "2", "3">>)}

\* the id of the second lesson of the first seeding, of the first lesson of
\* the second, of the first lesson of the first in upper case, an id no
\* document has, and a string that is no id
ScienceId == OidHex(1, 2)
ReseededId == OidHex(2, 1)
UpperCaseId == <<"6", "5", "A", "F">> \o Zeros(16) \o HexByte(1) \o HexByte(1)
UnknownId == OidHex(9, 9)
MalformedId == <<"x", "y", "z">>

Item(lessonId, quantity) == Obj([lessonId |-> lessonId, quantity |-> quantity])

ItemGood == Item(Str(ScienceId), Num(9))
ItemUnknownLesson == Item(Str(UnknownId), Num(1))
ItemNoLessonId == Obj([quantity |-> Num(1)])
ItemMalformedId == Item(Str(MalformedId), Num(1))
ItemZero == Item(Str(ScienceId), Num(0))
ItemFraction == Item(Str(ScienceId), NumHalf(1))
ItemTextQuantity == Item(Str(ScienceId), Str(<<"1">>))
ItemNothing == Obj([other |-> Num(1)])

ItemsInputs ==
    { Str(<<"x">>), Arr(<<>>),
      Arr(<<ItemGood>>), Arr(<<ItemGood, ItemUnknownLesson>>),
      Arr(<<ItemNoLessonId>>), Arr(<<ItemMalformedId>>), Arr(<<ItemZero>>),
      Arr(<<ItemFraction>>), Arr(<<ItemTextQuantity>>), Arr(<<ItemNothing>>),
      Arr(<<ItemGood, ItemNoLessonId>>), Arr(<<ItemZero, ItemNoLessonId>>),
      Arr(<<ItemZero, ItemMalformedId>>) }

OrderBody(name, phone, items) == [name |-> name, phone |-> phone, items |-> items]

\* every combination of the inputs: the bodies of SpecOrders
OrderBodies ==
    {OrderBody(n, p, i) : n \in NameInputs, p \in PhoneInputs, i \in ItemsInputs}

\* the bodies of Spec: one per outcome of the handler
FewOrderBodies ==
    { OrderBody(Str(JohnDoe), Str(<<"1", "2", "3">>), Arr(<<ItemGood>>)),
      OrderBody(Bool(TRUE), Num(123), Arr(<<ItemGood, ItemUnknownLesson>>)),
      OrderBody(Str(John123), Str(<<"1", "2", "3">>), Arr(<<ItemGood>>)),
      OrderBody(Str(JohnDoe), Str(<<"a", "b", "c">>), Arr(<<ItemGood>>)),
      OrderBody(Str(JohnDoe), Str(<<"1", "2", "3">>), Arr(<<>>)),
      OrderBody(Str(JohnDoe), Str(<<"1", "2", "3">>), Arr(<<ItemNoLessonId>>)),
      OrderBody(Str(JohnDoe), Str(<<"1", "2", "3">>), Arr(<<ItemMalformedId>>)),
      OrderBody(Str(JohnDoe), Str(<<"1", "2", "3">>), Arr(<<ItemGood, ItemZero>>)) }

LessonIds == {ScienceId, ReseededId, UpperCaseId, UnknownId, MalformedId}

\* the ids of Spec
FewLessonIds == {ScienceId, UnknownId, MalformedId}

TextValue == Str(<<"a", ".", "M">>)

\* the bodies of SpecUpdate
UpdateBodies ==
    { <<>>,
      [foo |-> Num(1)],
      [_id |-> Str(MalformedId)],
      [spaces |-> Num(3)],
      [spaces |-> Num(-1), foo |-> Num(1)],
      [subject |-> TextValue, price |-> NumHalf(9), _id |-> Null],
      [subject |-> TextValue, location |-> TextValue, price |-> Num(90),
       spaces |-> Num(0), image |-> Str(<<"m", ".", "a">>)] }

\* the bodies of Spec
FewUpdateBodies ==
    { [foo |-> Num(1)],
      [spaces |-> Num(3)],
      [spaces |-> Num(-1)],
      [subject |-> TextValue, price |-> NumHalf(9), foo |-> Num(1)] }

\* the bodies of SpecSearch: they give lessons text with a dot and with a
\* space in it, a fractional price, and a digit held as a number and as text
SearchUpdateBodies ==
    { [subject |-> Str(<<"H", ".", "9">>), price |-> NumHalf(9), spaces |-> Str(<<"9">>)],
      [location |-> Str(<<"h", " ", "9">>), spaces |-> Num(9)] }

QueryAlphabet == {"H", " ", "9", "."}

RECURSIVE StringsUpTo(_)
StringsUpTo(n) ==
    IF n = 0 THEN {<<>>}
    ELSE LET shorter == StringsUpTo(n - 1)
         IN  shorter \cup {Append(s, c) : s \in shorter, c \in QueryAlphabet}

\* the q of SpecSearch: absent, or any text of up to MaxQueryLen characters
Queries == {Undefined} \cup {Str(s) : s \in StringsUpTo(MaxQueryLen)}

\* the q of Spec
FewQueries ==
    {Undefined, Str(<<" ">>), Str(<<"m", "a", "t", "h">>), Str(<<"9", "0">>)}

----------------------------------------------------------------------------
(* Actions: one per handler *)

Idle == [pc |-> "idle"]
Tasks == {1, 2}

Init ==
    /\ lessons = <<>>
    /\ orders = <<>>
    /\ nextOid = 1
    /\ seedRuns = 0
    /\ req = NoRequest
    /\ resp = NoResponse
    /\ tasks = [i \in Tasks |-> Idle]

\* node seed.js
Seed ==
    /\ seedRuns < MaxSeedRuns
    /\ seedRuns' = seedRuns + 1
    /\ lessons' = Run(lessons, seedRuns + 1)
    /\ req' = [op |-> "seed"]
    /\ resp' = NoResponse
    /\ UNCHANGED <<orders, nextOid, tasks>>

\* GET /lessons
ListLessons ==
    /\ req' = [op |-> "GET /lessons"]
    /\ resp' = Response(200, GetLessons(lessons))
    /\ UNCHANGED <<lessons, orders, nextOid, seedRuns, tasks>>

\* GET /search?q=...
Search(param) ==
    /\ req' = [op |-> "GET /search", q |-> param]
    /\ resp' = Response(200, GetSearch(lessons, param))
    /\ UNCHANGED <<lessons, orders, nextOid, seedRuns, tasks>>

\* POST /orders
PostOrder(body, now) ==
    \E out \in {PostOrders(lessons, orders, nextOid, body, now)} :
        /\ Len(out.orders) <= MaxOrders
        /\ req' = [op |-> "POST /orders", body |-> body]
        /\ resp' = out.resp
        /\ lessons' = out.lessons
        /\ orders' = out.orders
        /\ nextOid' = out.nextOid
        /\ UNCHANGED <<seedRuns, tasks>>

\* PUT /lessons/:id, served without another request in between
PutLesson(id, body) ==
    \E out \in {PutLessons(lessons, id, body)} :
        /\ req' = [op |-> "PUT /lessons/:id", id |-> id, body |-> body]
        /\ resp' = out.resp
        /\ lessons' = out.lessons
        /\ UNCHANGED <<orders, nextOid, seedRuns, tasks>>

Next ==
    \/ Seed
    \/ ListLessons
    \/ \E q \in FewQueries : Search(q)
    \/ \E body \in FewOrderBodies, now \in Timestamps : PostOrder(body, now)
    \/ \E id \in FewLessonIds, body \in FewUpdateBodies : PutLesson(id, body)

\* every route and the seeding script, each request served alone
Spec == Init /\ [][Next]_vars

\* a store seeded once
InitSeeded ==
    /\ lessons = Run(<<>>, 1)
    /\ orders = <<>>
    /\ nextOid = 1
    /\ seedRuns = 1
    /\ req = NoRequest
    /\ resp = NoResponse
    /\ tasks = [i \in Tasks |-> Idle]

NextOrders == \E body \in OrderBodies : PostOrder(body, 0)

\* POST /orders with every combination of the inputs, all at one instant
SpecOrders == InitSeeded /\ [][NextOrders]_vars

NextUpdate ==
    \/ Seed
    \/ PostOrder(OrderBody(Str(JohnDoe), Str(<<"1", "2", "3">>), Arr(<<ItemGood>>)), 0)
    \/ \E id \in LessonIds, body \in UpdateBodies : PutLesson(id, body)

\* PUT /lessons/:id with every id and body of the inputs, on a store that
\* is seeded again and takes orders in between
SpecUpdate == InitSeeded /\ [][NextUpdate]_vars

NextSearch ==
    \/ \E q \in Queries : Search(q)
    \/ \E body \in SearchUpdateBodies : PutLesson(UpperCaseId, body)

\* GET /search with every query of up to MaxQueryLen characters
SpecSearch == InitSeeded /\ [][NextSearch]_vars

----------------------------------------------------------------------------
(* PUT /lessons/:id requests in flight together.  A handler runs without   *)
(* interruption up to each await; the store serves the calls it is sent    *)
(* one at a time, in any order.                                            *)

InFlight(pc, id, body) == [pc |-> pc, id |-> id, body |-> body]
Done(id, body, response) == [pc |-> "done", id |-> id, body |-> body, resp |-> response]

\* the handler up to its first await
PutBegin(i, id, body) ==
    /\ tasks[i].pc = "idle"
    /\ tasks' = [tasks EXCEPT ![i] =
                    IF PutCheck(id, body) # Null THEN Done(id, body, PutCheck(id, body))
                    ELSE InFlight("byObjectId", id, body)]
    /\ UNCHANGED <<lessons, orders, nextOid, seedRuns, req, resp>>

\* the first findOneAndUpdate and the handler up to its next await or its end
PutByObjectId(i) ==
    /\ tasks[i].pc = "byObjectId"
    /\ \E r \in {UpdateByObjectId(lessons, tasks[i].id, tasks[i].body)} :
          /\ lessons' = r.coll
          /\ tasks' = [tasks EXCEPT ![i] =
                          IF r.value # Null THEN Done(tasks[i].id, tasks[i].body, PutAnswer(r))
                          ELSE InFlight("byString", tasks[i].id, tasks[i].body)]
    /\ UNCHANGED <<orders, nextOid, seedRuns, req, resp>>

\* the fallback findOneAndUpdate and the handler to its end
PutByString(i) ==
    /\ tasks[i].pc = "byString"
    /\ \E r \in {UpdateByString(lessons, tasks[i].id, tasks[i].body)} :
          /\ lessons' = r.coll
          /\ tasks' = [tasks EXCEPT ![i] = Done(tasks[i].id, tasks[i].body, PutAnswer(r))]
    /\ UNCHANGED <<orders, nextOid, seedRuns, req, resp>>

\* the bodies of SpecConc: two of them set spaces, to different values
ConcUpdateBodies ==
    { [foo |-> Num(1)],
      [spaces |-> Num(3)],
      [spaces |-> Num(4), subject |-> TextValue],
      [price |-> NumHalf(9), foo |-> Num(1)] }

NextConc ==
    \/ \E i \in Tasks, id \in LessonIds, body \in ConcUpdateBodies : PutBegin(i, id, body)
    \/ \E i \in Tasks : PutByObjectId(i)
    \/ \E i \in Tasks : PutByString(i)

\* two PUT /lessons/:id requests, their store calls interleaved
SpecConc == InitSeeded /\ [][NextConc]_vars

----------------------------------------------------------------------------
(* What the claims say of a request, written from the claims' words *)

AllowList == {"subject", "location", "price", "spaces", "image"}

IsPostOrders(r) == r.op = "POST /orders"
IsPutLessons(r) == r.op = "PUT /lessons/:id"
IsGetSearch(r) == r.op = "GET /search"

Present(v) == v.t \notin {"undefined", "null"}

\* non-empty, letters and whitespace only
LettersAndSpaces(v) ==
    /\ Present(v)
    /\ ToString(v) # <<>>
    /\ \A i \in DOMAIN ToString(v) : ToString(v)[i] \in Range(Lower) \cup Range(Upper) \cup {" ", "\t", "\n"}

\* non-empty, digits only
DigitsOnly(v) ==
    /\ Present(v)
    /\ ToString(v) # <<>>
    /\ \A i \in DOMAIN ToString(v) : ToString(v)[i] \in Range(Digits)

NonEmptyList(v) == v.t = "array" /\ v.a # <<>>

\* a string of 24 hexadecimal digits: syntactically a store identifier
IsIdentifier(v) ==
    /\ v.t = "string"
    /\ Len(v.s) = 24
    /\ \A i \in DOMAIN v.s : ToLowerChar(v.s[i]) \in Range(HexDigits)

HasLessonId(it) == it.t = "object" /\ "lessonId" \in DOMAIN it.o /\ IsIdentifier(it.o.lessonId)

HasQuantity(it) ==
    /\ it.t = "object"
    /\ "quantity" \in DOMAIN it.o
    /\ it.o.quantity.t = "number"
    /\ DOMAIN it.o.quantity = {"t", "n", "half"}
    /\ ~it.o.quantity.half
    /\ it.o.quantity.n >= 1

\* the error of the first check an item list fails, lessonId before quantity
\* within an item; "" when every item passes
RECURSIVE FirstItemError(_)
FirstItemError(a) ==
    IF a = <<>> THEN ""
    ELSE IF ~HasLessonId(Head(a)) THEN "Invalid lessonId"
    ELSE IF ~HasQuantity(Head(a)) THEN "Invalid quantity"
    ELSE FirstItemError(Tail(a))

\* the error of the first check a body fails; "" when it passes them all
FirstError(body) ==
    IF ~LettersAndSpaces(body.name) THEN "Invalid name"
    ELSE IF ~DigitsOnly(body.phone) THEN "Invalid phone"
    ELSE IF ~NonEmptyList(body.items) THEN "No items in order"
    ELSE FirstItemError(body.items.a)

\* C1: for every POST /orders the checks are applied in a fixed order (name,
\* phone, items, then the items in list order, lessonId before quantity) and
\* the first one that fails alone determines the 400 response.
C1_FirstFailingCheckDecides ==
    (IsPostOrders(req) /\ FirstError(req.body) # "")
        => resp = Response(400, Error(FirstError(req.body)))

\* C2: a POST /orders with a valid name, a valid phone and a non-empty list
\* whose first failing item check is that of a lessonId (missing, or not a
\* valid store identifier) is answered 400 {error: "Invalid lessonId"} and
\* persists no order.
C2_BadLessonIdRejected ==
    [][ (IsPostOrders(req') /\ FirstError(req'.body) = "Invalid lessonId")
            => (resp' = Response(400, Error("Invalid lessonId")) /\ orders' = orders) ]_vars

\* C3: in every reachable state every persisted order has a non-empty item
\* list, every item has a positive integer quantity and a lessonId that is
\* syntactically a store identifier, the name is letters and whitespace only
\* and the phone digits only.
C3_PersistedOrdersValid ==
    \A i \in DOMAIN orders :
        /\ NonEmptyList(orders[i].items)
        /\ \A j \in DOMAIN orders[i].items.a :
              HasLessonId(orders[i].items.a[j]) /\ HasQuantity(orders[i].items.a[j])
        /\ LettersAndSpaces(orders[i].name)
        /\ DigitsOnly(orders[i].phone)

\* orders have been accepted and the last request was rejected
C3_Witness ==
    /\ Len(orders) >= 2
    /\ \E i \in DOMAIN orders : Len(orders[i].items.a) = 2
    /\ IsPostOrders(req)
    /\ resp.status = 400

\* C4: a request answered with a client error (400 from POST /orders, 400 or
\* 404 from PUT /lessons/:id) leaves the lesson collection and the order
\* collection exactly as they were.
C4_ClientErrorNoEffect ==
    [][ ((IsPostOrders(req') \/ IsPutLessons(req')) /\ resp'.status \in {400, 404})
            => (lessons' = lessons /\ orders' = orders) ]_vars

\* a PUT with fields to set was answered 404 on a store that holds lessons and orders
C4_Witness ==
    /\ IsPutLessons(req)
    /\ resp = Response(404, Error("Lesson not found"))
    /\ lessons # <<>>
    /\ orders # <<>>

\* the route parameter id identifies the document
Identifies(id, doc) == doc["_id"] = ObjectId(ToLowerCase(id))

\* the document with the body's allow-listed fields set and nothing else changed
Overlay(doc, body) ==
    [k \in DOMAIN doc |-> IF k \in DOMAIN body \cap AllowList THEN body[k] ELSE doc[k]]

\* C5: a PUT /lessons/:id whose id identifies an existing lesson and whose
\* body has at least one allow-listed field sets exactly the body's
\* allow-listed fields on that lesson, leaves its other fields, every other
\* lesson and every order unchanged, and responds with the updated lesson.
C5_PartialUpdate ==
    [][ (/\ IsPutLessons(req')
         /\ \E i \in DOMAIN lessons : Identifies(req'.id, lessons[i])
         /\ DOMAIN req'.body \cap AllowList # {})
            => (/\ DOMAIN lessons' = DOMAIN lessons
                /\ \A i \in DOMAIN lessons :
                      lessons'[i] = IF Identifies(req'.id, lessons[i])
                                    THEN Overlay(lessons[i], req'.body)
                                    ELSE lessons[i]
                /\ orders' = orders
                /\ resp'.status = 200
                /\ \E i \in DOMAIN lessons :
                      Identifies(req'.id, lessons[i]) /\ resp'.body = lessons'[i]) ]_vars

\* an update whose body also carried a field outside the allow-list went
\* through, on a store that holds an order
C5_Witness ==
    /\ IsPutLessons(req)
    /\ resp.status = 200
    /\ DOMAIN req.body \ AllowList # {}
    /\ req.id # ToLowerCase(req.id)
    /\ orders # <<>>

\* C6: POST /orders leaves every lesson document as it was, and accepts an
\* order that passes the checks whatever the lessons are: also when an
\* item's quantity exceeds the lesson's spaces or names no existing lesson.
C6_OrdersIgnoreLessons ==
    [][ IsPostOrders(req')
            => (/\ lessons' = lessons
                /\ FirstError(req'.body) = ""
                      => (resp'.status = 201 /\ Len(orders') = Len(orders) + 1)) ]_vars

Names(item, doc) == doc["_id"].h = ToLowerCase(item.o.lessonId.s)

\* a stored order has an item for more than the spaces of the lesson it
\* names, and an item that names no lesson
C6_Witness ==
    /\ lessons # <<>>
    /\ \E i \in DOMAIN orders :
          /\ \E j \in DOMAIN orders[i].items.a, l \in DOMAIN lessons :
                /\ Names(orders[i].items.a[j], lessons[l])
                /\ lessons[l].spaces.t = "number"
                /\ orders[i].items.a[j].o.quantity.n > lessons[l].spaces.n
          /\ \E j \in DOMAIN orders[i].items.a :
                \A l \in DOMAIN lessons : ~Names(orders[i].items.a[j], lessons[l])

\* C8: every accepted POST /orders adds exactly one order, whose identifier
\* differs from that of every order already stored, and no operation
\* modifies or removes a stored order.
C8_OrdersAppendOnly ==
    [][ /\ Len(orders') >= Len(orders)
        /\ \A i \in DOMAIN orders : orders'[i] = orders[i]
        /\ (IsPostOrders(req') /\ resp'.status = 201)
              => (/\ Len(orders') = Len(orders) + 1
                  /\ \A i \in DOMAIN orders : orders[i]["_id"] # orders'[Len(orders')]["_id"]
                  /\ resp'.body = orders'[Len(orders')]) ]_vars

\* the same payload was accepted twice, at the same instant, and is stored
\* as two orders that differ in their identifier only
C8_Witness ==
    \E i, j \in DOMAIN orders :
        /\ i < j
        /\ orders[i]["_id"] # orders[j]["_id"]
        /\ \A k \in DOMAIN orders[i] \ {"_id"} : orders[i][k] = orders[j][k]

\* C9: in every reachable state every lesson's spaces is a non-negative integer.
C9_SpacesNonNegative ==
    \A i \in DOMAIN lessons :
        /\ lessons[i].spaces.t = "number"
        /\ DOMAIN lessons[i].spaces = {"t", "n", "half"}
        /\ ~lessons[i].spaces.half
        /\ lessons[i].spaces.n >= 0

\* the text contains x, letter case ignored, x taken literally
Contains(v, x) ==
    /\ v.t = "string"
    /\ \E start \in 0..(Len(v.s) - Len(x)) :
          \A j \in 1..Len(x) : ToLowerChar(v.s[start + j]) = ToLowerChar(x[j])

ParsesAsNumber(x) == "nan" \notin DOMAIN StringToNumber(x)

\* the lessons the claim gives GET /search?q=x, x the text of the query
Found(ls, x) ==
    IF x = <<>> THEN Range(ls)
    ELSE {doc \in Range(ls) :
            \/ Contains(doc.subject, x)
            \/ Contains(doc.location, x)
            \/ ParsesAsNumber(x) /\ doc.price = StringToNumber(x)
            \/ ParsesAsNumber(x) /\ doc.spaces = StringToNumber(x)}

\* the text of q as sent; empty when q is absent
QueryAsSent(param) == IF Present(param) THEN ToString(param) ELSE <<>>

\* the text of q as sent, less its leading and trailing whitespace
RECURSIVE Stripped(_)
Stripped(x) ==
    IF x # <<>> /\ Head(x) \in {" ", "\t", "\n"} THEN Stripped(Tail(x))
    ELSE IF x # <<>> /\ x[Len(x)] \in {" ", "\t", "\n"} THEN Stripped(SubSeq(x, 1, Len(x) - 1))
    ELSE x

\* C7 as stated: GET /search?q=X returns every lesson if X is absent or
\* empty, and otherwise exactly the lessons whose subject or location
\* contains X, letter case ignored, or, when X parses as a number, whose
\* price or spaces equals it.
C7_SearchAsSent ==
    IsGetSearch(req) =>
        \A x \in {QueryAsSent(req.q)} : Range(resp.body) = Found(lessons, x)

\* C7 as amended: the same of X with its leading and trailing whitespace
\* removed, and the store is left unchanged.
C7_SearchStripped ==
    [][ IsGetSearch(req')
            => (/\ lessons' = lessons
                /\ orders' = orders
                /\ resp'.status = 200
                /\ \A x \in {Stripped(QueryAsSent(req'.q))} :
                      Range(resp'.body) = Found(lessons, x)) ]_vars

\* a query with whitespace around a dot and a digit found some lessons and not others
C7_Witness ==
    /\ IsGetSearch(req)
    /\ req.q = Str(<<" ", ".", "9">>)
    /\ resp.body # <<>>
    /\ Len(resp.body) < Len(lessons)

\* where the seeding put the lesson the id names; 0 when it names none
SeededAt(id) ==
    IF \E n \in DOMAIN Run(<<>>, 1) : Identifies(id, Run(<<>>, 1)[n])
    THEN CHOOSE n \in DOMAIN Run(<<>>, 1) : Identifies(id, Run(<<>>, 1)[n])
    ELSE 0

\* both requests are answered, they name the same seeded lesson, and each
\* has an allow-listed field
Raced(i, j) ==
    /\ tasks[i].pc = "done"
    /\ tasks[j].pc = "done"
    /\ IsIdentifier(Str(tasks[i].id))
    /\ IsIdentifier(Str(tasks[j].id))
    /\ SeededAt(tasks[i].id) # 0
    /\ SeededAt(tasks[i].id) = SeededAt(tasks[j].id)
    /\ DOMAIN tasks[i].body \cap AllowList # {}
    /\ DOMAIN tasks[j].body \cap AllowList # {}

\* C10: two PUT /lessons/:id requests for the same lesson, in flight at once:
\* under every interleaving of their store calls the lesson ends as if the
\* two field sets had been applied one after the other in some order, each
\* request is answered 200 with the lesson as its own update left it, and
\* no other lesson changes.
C10_RacingUpdatesSerialize ==
    \A i, j \in Tasks :
        (i # j /\ Raced(i, j)) =>
            LET n == SeededAt(tasks[i].id)
                before == Run(<<>>, 1)[n]
                first(a) == Overlay(before, tasks[a].body)
                second(a, b) == Overlay(first(a), tasks[b].body)
            IN  /\ \/ /\ lessons[n] = second(i, j)
                      /\ tasks[i].resp = Response(200, first(i))
                      /\ tasks[j].resp = Response(200, second(i, j))
                   \/ /\ lessons[n] = second(j, i)
                      /\ tasks[j].resp = Response(200, first(j))
                      /\ tasks[i].resp = Response(200, second(j, i))
                /\ \A m \in DOMAIN lessons : m # n => lessons[m] = Run(<<>>, 1)[m]
                /\ \A k \in DOMAIN before :
                      /\ (k \in DOMAIN tasks[i].body \cap AllowList /\ k \notin DOMAIN tasks[j].body)
                            => lessons[n][k] = tasks[i].body[k]
                      /\ (k \in DOMAIN tasks[i].body \cap DOMAIN tasks[j].body \cap AllowList)
                            => lessons[n][k] \in {tasks[i].body[k], tasks[j].body[k]}

\* both requests set spaces, to different values, and one sets the subject
\* too: the one that began first lost spaces and kept the subject
C10_Witness ==
    /\ Raced(1, 2)
    /\ "subject" \in DOMAIN tasks[1].body
    /\ "spaces" \in DOMAIN tasks[2].body
    /\ lessons[SeededAt(tasks[1].id)].spaces = tasks[2].body.spaces
    /\ lessons[SeededAt(tasks[1].id)].subject = tasks[1].body.subject

====
